---------------------------- MODULE Spec2Model ----------------------------
(***************************************************************************)
(* A model of package gracegroup (src/unnamed/part_002, src/config.go).    *)
(*                                                                         *)
(* Group keeps two parallel lists, startFns and shutdownFns, filled by Add *)
(* under the mutex mu.  Wait launches every start function on a goroutine  *)
(* of an errgroup created by errgroup.WithContext, blocks in wait() until  *)
(* the errgroup's derived context is done or the errgroup has been waited  *)
(* for, then runs shutdown(), which launches every shutdown function on a  *)
(* goroutine of a plain errgroup.Group and waits for all of them.          *)
(*                                                                         *)
(* Library semantics the code relies on, modelled as the library defines   *)
(* them:                                                                   *)
(*  - context: a context is cancelled once; its cause never changes.  A    *)
(*    derived context is cancelled with the parent's cause when the        *)
(*    parent's cancellation is propagated to it, which happens after the   *)
(*    parent's Done channel is closed (inside the parent's cancel call for *)
(*    the standard contexts, on a watcher goroutine for other Context      *)
(*    implementations).  Deriving from a parent that is already done       *)
(*    cancels the derived context at once.                                 *)
(*  - errgroup: Go runs f on a new goroutine; the first non-nil error is   *)
(*    kept (errOnce) and, for a group made by WithContext, cancels the     *)
(*    derived context with that error as cause.  Wait blocks until every   *)
(*    goroutine has finished, cancels the derived context with the kept    *)
(*    error (context.Canceled when it is nil) and returns the kept error.  *)
(*  - errors.Join drops nil values and returns nil when all are nil;       *)
(*    errors.Is searches the joined errors and what they wrap.             *)
(*  - a loop variable is fresh per iteration (Go 1.22 and later; the       *)
(*    package needs context.WithTimeoutCause in its tests, Go 1.21+).      *)
(*                                                                         *)
(* An error value is a sequence of leaves (the flattened errors.Join       *)
(* tree, in order); nil is the empty sequence.  A leaf is <<kind, id>>.    *)
(***************************************************************************)
EXTENDS Integers, Sequences, FiniteSets, TLC

\* Number of goroutines calling Add; each registers one (start, shutdown) pair.
MaxEntries == 2

Callers == 1..MaxEntries

--------------------------------------------------------------------------
\* Error values

Nil == << >>

Canceled == <<"Canceled", 0>>

DeadlineExceeded == <<"DeadlineExceeded", 0>>

\* a cause given by the caller with WithCancelCause / WithTimeoutCause
CustomCause == <<"CustomCause", 0>>

\* a caller's cause that wraps context.Canceled (fmt.Errorf("...: %w", context.Canceled))
WrappedCanceledCause == <<"CauseWrapsCanceled", 0>>

\* the causes the context passed to Wait can end with
ParentCauses == {Canceled, DeadlineExceeded, CustomCause, WrappedCanceledCause}

\* errors returned by the start function registered by Add call k
StartErr(k) == <<"start", k>>

StartErrWrapsCanceled(k) == <<"startWrapsCanceled", k>>

\* error returned by the shutdown function registered by Add call k
ShutdownErr(k) == <<"shutdown", k>>

Err(leaf) == <<leaf>>

\* errors.Is on one error of the tree: identity, or the leaf wraps the target
Matches(leaf, target) ==
    \/ leaf = target
    \/ /\ target = Canceled
       /\ leaf[1] \in {"startWrapsCanceled", "CauseWrapsCanceled"}

\* errors.Is(err, target) for a leaf target
Is(err, target) == \E n \in DOMAIN err : Matches(err[n], target)

\* faulty variant of Join: only the first error is returned
JoinDropsSecond(a, b) == a

\* faulty variant of Join: only the second error is returned
JoinDropsFirst(a, b) == b

\* errors.Join(a, b): nil values dropped, nil when both are nil
Join(a, b) == a \o b

\* what a start function registered by call k may return
StartReturns(k) == {Nil, Err(StartErr(k)), Err(StartErrWrapsCanceled(k))}

\* what a shutdown function registered by call k may return when the context
\* it was given has error ctxErr: nil, its own error, or ctx.Err() once done
ShutdownReturns(k, ctxErr) ==
    {Nil, Err(ShutdownErr(k))} \cup (IF ctxErr = Nil THEN {} ELSE {ctxErr})

--------------------------------------------------------------------------
VARIABLES
    mu,             \* Group.mu: 0 when free, else the Add call holding it
    addPc,          \* position of each Add call
    startFns,       \* Group.startFns: ids of the registered start functions
    shutdownFns,    \* Group.shutdownFns: ids of the registered shutdown functions
    timeoutSet,     \* cfg.ShutdownTimeout > 0
    pc,             \* position of the goroutine that called Wait
    li,             \* index of the range loops in Wait and shutdown
    parentCause,    \* cause of the context passed to Wait, Nil while not done
    gCause,         \* cause of the errgroup's derived context, Nil while not done
    gErr,           \* err of the start errgroup (set once)
    startState,     \* per index: "idle", "running", "finished"
    startRet,       \* per index: what the start function returned
    waiterPc,       \* goroutine of wait(): "none", "wgWait", "closing", "exited"
    doneClosed,     \* channel done of wait() is closed
    runErr,         \* what wait() returned
    sdCtxErr,       \* Err() of the shutdown context, Nil while not done
    sdGErr,         \* err of the shutdown errgroup (set once)
    sdState,        \* per index: "idle", "running", "finished"
    sdRet,          \* per index: what the shutdown function returned
    result,         \* what Wait returned
    startCalls,     \* per function id: number of invocations of the start function
    sdCalls,        \* per function id: number of invocations of the shutdown function
    hist            \* history: facts about the order of events, for the properties

vars == <<mu, addPc, startFns, shutdownFns, timeoutSet, pc, li, parentCause,
          gCause, gErr, startState, startRet, waiterPc, doneClosed, runErr,
          sdCtxErr, sdGErr, sdState, sdRet, result, startCalls, sdCalls, hist>>

registryVars == <<mu, addPc, startFns, shutdownFns>>

runVars == <<gErr, startState, startRet, waiterPc, doneClosed, runErr, startCalls>>

sdVars == <<sdCtxErr, sdGErr, sdState, sdRet, sdCalls>>

N == Len(startFns)

\* New(cfg): empty lists; cfg.ShutdownTimeout is positive or not
Init ==
    /\ mu = 0
    /\ addPc = [c \in Callers |-> "ready"]
    /\ startFns = << >>
    /\ shutdownFns = << >>
    /\ timeoutSet \in BOOLEAN
    /\ pc = "idle"
    /\ li = 0
    /\ parentCause = Nil
    /\ gCause = Nil
    /\ gErr = Nil
    /\ startState = [i \in Callers |-> "idle"]
    /\ startRet = [i \in Callers |-> Nil]
    /\ waiterPc = "none"
    /\ doneClosed = FALSE
    /\ runErr = Nil
    /\ sdCtxErr = Nil
    /\ sdGErr = Nil
    /\ sdState = [i \in Callers |-> "idle"]
    /\ sdRet = [i \in Callers |-> Nil]
    /\ result = Nil
    /\ startCalls = [k \in Callers |-> 0]
    /\ sdCalls = [k \in Callers |-> 0]
    /\ hist = [parentFirst |-> FALSE,   \* the Wait context ended before any start function had returned an error
               sdFirst |-> 0]           \* index of the first shutdown function that returned an error, 0 if none

--------------------------------------------------------------------------
\* Group.Add, one step per statement; the mutex serialises the callers

\* Add without mutual exclusion: the caller goes on while another holds mu
AddLockNoMutex(c) ==
    /\ pc = "idle"
    /\ addPc[c] = "ready"
    /\ mu' = c
    /\ addPc' = [addPc EXCEPT ![c] = "locked"]
    /\ UNCHANGED <<startFns, shutdownFns, timeoutSet, pc, li, parentCause, gCause,
                   runVars, sdVars, result, hist>>

AddLock(c) ==
    /\ pc = "idle"
    /\ addPc[c] = "ready"
    /\ mu = 0
    /\ mu' = c
    /\ addPc' = [addPc EXCEPT ![c] = "locked"]
    /\ UNCHANGED <<startFns, shutdownFns, timeoutSet, pc, li, parentCause, gCause,
                   runVars, sdVars, result, hist>>

AddAppendStart(c) ==
    /\ addPc[c] = "locked"
    /\ startFns' = Append(startFns, c)
    /\ addPc' = [addPc EXCEPT ![c] = "appendedStart"]
    /\ UNCHANGED <<mu, shutdownFns, timeoutSet, pc, li, parentCause, gCause,
                   runVars, sdVars, result, hist>>

AddAppendShutdown(c) ==
    /\ addPc[c] = "appendedStart"
    /\ shutdownFns' = Append(shutdownFns, c)
    /\ addPc' = [addPc EXCEPT ![c] = "appended"]
    /\ UNCHANGED <<mu, startFns, timeoutSet, pc, li, parentCause, gCause,
                   runVars, sdVars, result, hist>>

AddUnlock(c) ==
    /\ addPc[c] = "appended"
    /\ mu' = 0
    /\ addPc' = [addPc EXCEPT ![c] = "done"]
    /\ UNCHANGED <<startFns, shutdownFns, timeoutSet, pc, li, parentCause, gCause,
                   runVars, sdVars, result, hist>>

--------------------------------------------------------------------------
\* The context passed to Wait (owned by the caller)

\* some start function has returned a non-nil error
SomeStartFailed ==
    \E i \in 1..N : startState[i] = "finished" /\ startRet[i] # Nil

\* the caller's context ends with cause c: its Done channel is closed
ParentCancel(c) ==
    /\ pc # "done"
    /\ parentCause = Nil
    /\ parentCause' = Err(c)
    /\ hist' = [hist EXCEPT !.parentFirst = ~SomeStartFailed]
    /\ UNCHANGED <<registryVars, timeoutSet, pc, li, gCause, runVars, sdVars, result>>

\* faulty variant of CancelCause: a later cancel replaces the cause
CancelCauseLast(current, cause) ==
    IF cause = Nil THEN (IF current # Nil THEN current ELSE Err(Canceled)) ELSE cause

\* cancel(cause) on a context: the first cause is kept
CancelCause(current, cause) ==
    IF current # Nil THEN current
    ELSE IF cause = Nil THEN Err(Canceled) ELSE cause

\* the parent's cancellation reaches the errgroup's derived context
Propagate ==
    /\ pc # "idle"
    /\ parentCause # Nil
    /\ gCause = Nil
    /\ gCause' = CancelCause(gCause, parentCause)
    /\ UNCHANGED <<registryVars, timeoutSet, pc, li, parentCause, runVars, sdVars,
                   result, hist>>

--------------------------------------------------------------------------
\* Group.Wait: errgroup.WithContext and the loop over startFns

\* g, ctx := errgroup.WithContext(ctx); a parent already done cancels ctx at once
WaitCall ==
    /\ pc = "idle"
    /\ mu = 0
    /\ pc' = "launch"
    /\ li' = 1
    /\ gCause' = parentCause
    /\ UNCHANGED <<registryVars, timeoutSet, parentCause, runVars, sdVars, result, hist>>

\* g.Go(start) for the next start function
Launch ==
    /\ pc = "launch"
    /\ li <= Len(startFns)
    /\ startState' = [startState EXCEPT ![li] = "running"]
    /\ startCalls' = [startCalls EXCEPT ![startFns[li]] = @ + 1]
    /\ li' = li + 1
    /\ UNCHANGED <<registryVars, timeoutSet, pc, parentCause, gCause, gErr, startRet,
                   waiterPc, doneClosed, runErr, sdVars, result, hist>>

\* the loop is over: r.wait(ctx, g) starts the goroutine that calls g.Wait()
LaunchEnd ==
    /\ pc = "launch"
    /\ li > Len(startFns)
    /\ pc' = "select"
    /\ waiterPc' = "wgWait"
    /\ UNCHANGED <<registryVars, timeoutSet, li, parentCause, gCause, gErr, startState,
                   startRet, doneClosed, runErr, startCalls, sdVars, result, hist>>

\* faulty variant of ErrOnce: every non-nil error overwrites the kept one
ErrOnceLast(kept, err) == IF err = Nil THEN kept ELSE err

\* g.errOnce.Do: the first non-nil error is kept
ErrOnce(kept, err) == IF kept = Nil THEN err ELSE kept

\* the errgroup goroutine of start function i, from the return of the
\* function: err := f(); errOnce (g.err = err; cancel(g.err)); wg.Done().
\* The model follows the goroutines until Wait returns.
StartReturn(i, v) ==
    /\ pc # "done"
    /\ startState[i] = "running"
    /\ startRet' = [startRet EXCEPT ![i] = v]
    /\ gErr' = ErrOnce(gErr, v)
    /\ gCause' = IF v # Nil /\ gErr = Nil THEN CancelCause(gCause, v) ELSE gCause
    /\ startState' = [startState EXCEPT ![i] = "finished"]
    /\ UNCHANGED <<registryVars, timeoutSet, pc, li, parentCause, waiterPc,
                   doneClosed, runErr, startCalls, sdVars, result, hist>>

\* faulty variant of WgDone: one finished goroutine is enough
WgDoneAny == \E i \in 1..N : startState[i] = "finished"

\* wg.Wait() of the start errgroup returns: every goroutine has finished
WgDone == \A i \in 1..N : startState[i] = "finished"

\* g.Wait() in the goroutine of wait(): wg.Wait(), then cancel(g.err)
WaiterWait ==
    /\ waiterPc = "wgWait"
    /\ WgDone
    /\ gCause' = CancelCause(gCause, gErr)
    /\ waiterPc' = "closing"
    /\ UNCHANGED <<registryVars, timeoutSet, pc, li, parentCause, gErr, startState,
                   startRet, doneClosed, runErr, startCalls, sdVars, result, hist>>

\* close(done)
WaiterClose ==
    /\ waiterPc = "closing"
    /\ doneClosed' = TRUE
    /\ waiterPc' = "exited"
    /\ UNCHANGED <<registryVars, timeoutSet, pc, li, parentCause, gCause, gErr,
                   startState, startRet, runErr, startCalls, sdVars, result, hist>>

\* faulty variant of SelectReady: only the done channel is read, so the
\* run phase waits for every start function
SelectReadyDoneOnly == doneClosed

\* select { case <-done: case <-ctx.Done(): }
SelectReady == doneClosed \/ gCause # Nil

\* faulty variant of RunPhaseError: the cause is returned unfiltered
RunPhaseErrorRaw(cause) == cause

\* faulty variant of RunPhaseError: the cause is never returned
RunPhaseErrorDropsAll(cause) == Nil

\* if err := context.Cause(ctx); !errors.Is(err, context.Canceled) { return err }; return nil
RunPhaseError(cause) == IF ~Is(cause, Canceled) THEN cause ELSE Nil

\* faulty variant of AfterWait: Wait returns at once when wait() returned an error
AfterWaitReturnsOnError(err) == IF err # Nil THEN "done" ELSE "shutdownLaunch"

\* err := r.wait(ctx, g); shutdownError := r.shutdown(): whatever err is,
\* Wait goes on to shutdown()
AfterWait(err) == "shutdownLaunch"

\* faulty variant of ShutdownCtxInit: the shutdown context is derived from
\* the context of the run phase, which is done by now
ShutdownCtxFromWaitCtx(waitCtxCause) ==
    IF waitCtxCause = Nil THEN Nil ELSE Err(Canceled)

\* ctx, cancel := context.WithCancel(context.Background()), then
\* context.WithTimeout(ctx, ...): a context that is not done, whatever the
\* state of the context of the run phase
ShutdownCtxInit(waitCtxCause) == Nil

\* wait() returns; shutdown() makes its context (the timer starts when
\* cfg.ShutdownTimeout > 0) and its errgroup
Select ==
    /\ pc = "select"
    /\ SelectReady
    /\ runErr' = RunPhaseError(gCause)
    /\ pc' = AfterWait(runErr')
    /\ li' = 1
    /\ sdCtxErr' = ShutdownCtxInit(gCause)
    /\ UNCHANGED <<registryVars, timeoutSet, parentCause, gCause, gErr, startState,
                   startRet, waiterPc, doneClosed, startCalls, sdGErr, sdState,
                   sdRet, sdCalls, result, hist>>

--------------------------------------------------------------------------
\* Group.shutdown

\* the deadline of context.WithTimeout(ctx, r.cfg.ShutdownTimeout) passes
DeadlineFire ==
    /\ timeoutSet
    /\ pc \in {"shutdownLaunch", "shutdownWait"}
    /\ sdCtxErr = Nil
    /\ sdCtxErr' = Err(DeadlineExceeded)
    /\ UNCHANGED <<registryVars, timeoutSet, pc, li, parentCause, gCause, runVars,
                   sdGErr, sdState, sdRet, sdCalls, result, hist>>

\* faulty variant of ShutdownFnCalled: one loop variable shared by all closures,
\* read after the loop has ended
ShutdownFnSharedLoopVar(i) == shutdownFns[Len(shutdownFns)]

\* the function the closure of iteration i calls: the loop variable of that iteration
ShutdownFnCalled(i) == shutdownFns[i]

\* g.Go(func() error { return shutdownFn(ctx) }) for the next shutdown function
SdLaunch ==
    /\ pc = "shutdownLaunch"
    /\ li <= Len(shutdownFns)
    /\ sdState' = [sdState EXCEPT ![li] = "running"]
    /\ sdCalls' = [sdCalls EXCEPT ![ShutdownFnCalled(li)] = @ + 1]
    /\ li' = li + 1
    /\ UNCHANGED <<registryVars, timeoutSet, pc, parentCause, gCause, runVars,
                   sdCtxErr, sdGErr, sdRet, result, hist>>

\* the loop is over: g.Wait() begins
SdLaunchEnd ==
    /\ pc = "shutdownLaunch"
    /\ li > Len(shutdownFns)
    /\ pc' = "shutdownWait"
    /\ UNCHANGED <<registryVars, timeoutSet, li, parentCause, gCause, runVars, sdVars,
                   result, hist>>

\* faulty variant of ShutdownCtxAfter: a group made by errgroup.WithContext,
\* whose first error cancels the context of the siblings
ShutdownCtxCancelledOnError(ctxErr, err) ==
    IF err # Nil /\ ctxErr = Nil THEN Err(Canceled) ELSE ctxErr

\* g := &errgroup.Group{}: the group has no cancel function, so an error
\* of one goroutine leaves the shutdown context as it is
ShutdownCtxAfter(ctxErr, err) == ctxErr

\* the errgroup goroutine of shutdown function i, from the return of the
\* function: err := shutdownFn(ctx); errOnce (g.err = err); wg.Done()
SdReturn(i, v) ==
    /\ sdState[i] = "running"
    /\ sdRet' = [sdRet EXCEPT ![i] = v]
    /\ sdGErr' = ErrOnce(sdGErr, v)
    /\ sdCtxErr' = ShutdownCtxAfter(sdCtxErr, v)
    /\ sdState' = [sdState EXCEPT ![i] = "finished"]
    /\ hist' = IF v # Nil /\ hist.sdFirst = 0 THEN [hist EXCEPT !.sdFirst = i] ELSE hist
    /\ UNCHANGED <<registryVars, timeoutSet, pc, li, parentCause, gCause, runVars,
                   sdCalls, result>>

\* faulty variant of ShutdownWaitReady: the wait also ends when the shutdown
\* context is done
ShutdownWaitUntilDeadline ==
    (\A i \in 1..Len(shutdownFns) : sdState[i] = "finished") \/ sdCtxErr # Nil

\* g.Wait() of the shutdown errgroup returns: every goroutine has finished
ShutdownWaitReady == \A i \in 1..Len(shutdownFns) : sdState[i] = "finished"

\* shutdown() returns g.Wait() (the deferred cancel runs), and Wait returns
\* errors.Join(shutdownError, err)
SdWait ==
    /\ pc = "shutdownWait"
    /\ ShutdownWaitReady
    /\ result' = Join(sdGErr, runErr)
    /\ sdCtxErr' = CancelCause(sdCtxErr, Nil)
    /\ pc' = "done"
    /\ UNCHANGED <<registryVars, timeoutSet, li, parentCause, gCause, runVars, sdGErr,
                   sdState, sdRet, sdCalls, hist>>

--------------------------------------------------------------------------
\* goroutine i of the start errgroup, for any value its function may return
StartGoroutine(i) ==
    /\ i \in 1..Len(startFns)
    /\ \E v \in StartReturns(startFns[i]) : StartReturn(i, v)

\* goroutine i of the shutdown errgroup, for any value its function may return
SdGoroutine(i) ==
    /\ i \in 1..Len(shutdownFns)
    /\ \E v \in ShutdownReturns(ShutdownFnCalled(i), sdCtxErr) : SdReturn(i, v)

\* The calls of Add are numbered in the order in which they take the mutex:
\* the callers are interchangeable, so this fixes their names only.
InLockOrder(c) == \A d \in 1..(c - 1) : addPc[d] # "ready"

Next ==
    \/ \E c \in Callers : InLockOrder(c) /\ AddLock(c)
    \/ \E c \in Callers : AddAppendStart(c)
    \/ \E c \in Callers : AddAppendShutdown(c)
    \/ \E c \in Callers : AddUnlock(c)
    \/ \E c \in ParentCauses : ParentCancel(c)
    \/ Propagate
    \/ WaitCall
    \/ Launch
    \/ LaunchEnd
    \/ \E i \in Callers : StartGoroutine(i)
    \/ WaiterWait
    \/ WaiterClose
    \/ Select
    \/ DeadlineFire
    \/ SdLaunch
    \/ SdLaunchEnd
    \/ \E i \in Callers : SdGoroutine(i)
    \/ SdWait

Spec == Init /\ [][Next]_vars

\* The registration alone: concurrent calls of Add by any of the callers
\* in any order, up to the call of Wait, with the caller's context ending
\* at any moment.
RegistryNext ==
    \/ \E c \in Callers : AddLock(c)
    \/ \E c \in Callers : AddAppendStart(c)
    \/ \E c \in Callers : AddAppendShutdown(c)
    \/ \E c \in Callers : AddUnlock(c)
    \/ \E c \in ParentCauses : ParentCancel(c)
    \/ WaitCall

RegistrySpec == Init /\ [][RegistryNext]_vars

\* a step of Wait, of the goroutine of wait(), of the propagation of the
\* caller's cancellation, or the return of a shutdown function
ProgramStep ==
    \/ Propagate
    \/ Launch
    \/ LaunchEnd
    \/ WaiterWait
    \/ WaiterClose
    \/ Select
    \/ SdLaunch
    \/ SdLaunchEnd
    \/ SdWait
    \/ \E i \in Callers : SdGoroutine(i)

\* The Go scheduler runs runnable goroutines, so the program does not stop
\* while one of its steps can be taken.  Shutdown functions are assumed to
\* return (the assumption the properties about Wait returning make); start
\* functions, the caller's cancellation and the shutdown deadline are not
\* assumed to happen.
Fairness == WF_vars(ProgramStep)

FairSpec == Spec /\ Fairness

--------------------------------------------------------------------------
\* Properties

Returned == pc = "done"

\* the shutdown phase has begun: wait() has returned
ShutdownPhase == pc \in {"shutdownLaunch", "shutdownWait", "done"}

StartFailedAt(i) == i \in 1..N /\ startState[i] = "finished" /\ startRet[i] # Nil

SdFailedAt(i) ==
    i \in 1..Len(shutdownFns) /\ sdState[i] = "finished" /\ sdRet[i] # Nil

AllStartsReturnedNil ==
    /\ pc \notin {"idle", "launch"}
    /\ \A i \in 1..N : startState[i] = "finished" /\ startRet[i] = Nil

AllShutdownsReturnedNil ==
    \A i \in 1..Len(shutdownFns) : sdState[i] = "finished" /\ sdRet[i] = Nil

EveryShutdownInvokedOnce ==
    \A n \in 1..Len(shutdownFns) : sdCalls[shutdownFns[n]] = 1

\* C1: in every run, whatever the start functions, the sibling shutdown
\* functions and the caller's context do, no shutdown function is ever
\* invoked twice, and once shutdown() waits for its goroutines (and so when
\* Wait returns) each registered shutdown function has been invoked exactly once.
C1_ShutdownInvokedExactlyOnce ==
    /\ \A k \in Callers : sdCalls[k] <= 1
    /\ pc \in {"shutdownWait", "done"} => EveryShutdownInvokedOnce

\* Wait has returned from a run with two entries where a start function
\* failed and a shutdown function failed
C1_Witness ==
    /\ Returned
    /\ Len(shutdownFns) >= 2
    /\ \E i \in 1..N : StartFailedAt(i)
    /\ \E i \in 1..Len(shutdownFns) : SdFailedAt(i)
    /\ EveryShutdownInvokedOnce

\* C2 as stated: when Wait returns, its result is non-nil and has the error
\* of every start function that returned a non-nil error during the call
\* among its causes.
C2_EveryStartErrorReported ==
    Returned =>
        \A i \in 1..N : StartFailedAt(i) => result # Nil /\ Is(result, startRet[i][1])

\* the start function of goroutine i was the first to cancel the errgroup's
\* derived context, with an error that does not match context.Canceled
StartErrorIsCause(i) ==
    /\ StartFailedAt(i)
    /\ gCause = startRet[i]
    /\ ~Is(startRet[i], Canceled)

\* C2 amended: if the error of a start function is the cause of the
\* errgroup's derived context (it was recorded before any other start error
\* and before the cancellation of the caller's context reached the group)
\* and does not match context.Canceled, then Wait eventually returns, given
\* that every shutdown function returns, and its result is non-nil with
\* that error among its causes.
C2_FirstStartErrorReported ==
    /\ [](\A i \in Callers :
            Returned /\ StartErrorIsCause(i) =>
                result # Nil /\ Is(result, startRet[i][1]))
    /\ (\E i \in Callers : StartErrorIsCause(i)) ~> Returned

\* Wait has returned the error of a start function that failed first while
\* another start function failed too and the caller's context was cancelled
C2_Witness ==
    /\ Returned
    /\ \E i, j \in 1..N :
          /\ i # j
          /\ StartErrorIsCause(i)
          /\ StartFailedAt(j)
          /\ Is(result, startRet[i][1])
          /\ ~Is(result, startRet[j][1])

C7_PlainCancelFirstGivesNil ==
    Returned /\ parentCause = Err(Canceled) /\ hist.parentFirst
             /\ AllShutdownsReturnedNil =>
        result = Nil /\ EveryShutdownInvokedOnce

\* C7 amended: if the context passed to Wait ended with cause
\* context.Canceled and that cancellation reached the errgroup's derived
\* context before the error of any start function did (the cause of the
\* derived context is context.Canceled), and every shutdown function
\* returned nil, Wait returns nil, every shutdown function having been
\* invoked.
C7_PlainCancelReachedGroupFirstGivesNil ==
    Returned /\ parentCause = Err(Canceled) /\ gCause = Err(Canceled)
             /\ AllShutdownsReturnedNil =>
        result = Nil /\ EveryShutdownInvokedOnce

\* Wait has returned nil after the caller's context was cancelled and the
\* cancellation reached the group while a start function was running;
\* both shutdown functions were invoked
C7_Witness ==
    /\ Returned
    /\ parentCause = Err(Canceled)
    /\ gCause = Err(Canceled)
    /\ hist.parentFirst
    /\ N >= 2
    /\ \E i \in 1..N : startState[i] = "running"
    /\ AllShutdownsReturnedNil
    /\ EveryShutdownInvokedOnce
    /\ result = Nil

\* C8 as stated: if the context passed to Wait ended with a cause other
\* than context.Canceled before any start function had returned an error,
\* that cause is the run-phase error and among the causes of Wait's
\* result, and every shutdown function has been invoked.
C8_OtherCauseFirstIsReported ==
    Returned /\ parentCause # Nil /\ parentCause # Err(Canceled)
             /\ hist.parentFirst =>
        /\ runErr = parentCause
        /\ Is(result, parentCause[1])
        /\ EveryShutdownInvokedOnce

\* C8 amended: if the context passed to Wait ended with a cause that does
\* not match context.Canceled (errors.Is) and that cancellation reached the
\* errgroup's derived context before the error of any start function did
\* (the cause of the derived context is the caller's cause), that cause is
\* the run-phase error and among the causes of Wait's result, and every
\* shutdown function has been invoked.
C8_OtherCauseReachedGroupFirstIsReported ==
    Returned /\ parentCause # Nil /\ ~Is(parentCause, Canceled)
             /\ gCause = parentCause =>
        /\ runErr = parentCause
        /\ Is(result, parentCause[1])
        /\ EveryShutdownInvokedOnce

\* Wait has returned the caller's deadline error together with the error
\* of a shutdown function; both shutdown functions were invoked
C8_Witness ==
    /\ Returned
    /\ parentCause = Err(DeadlineExceeded)
    /\ gCause = parentCause
    /\ hist.parentFirst
    /\ N >= 2
    /\ \E i \in 1..Len(shutdownFns) : sdRet[i] = Err(ShutdownErr(shutdownFns[i]))
    /\ Is(result, DeadlineExceeded)
    /\ EveryShutdownInvokedOnce

\* C9: the failure of a shutdown function does not end its siblings'
\* context: while shutdown functions run, their context is done only by
\* the deadline of a positive cfg.ShutdownTimeout.  Wait has not returned
\* while a sibling of the failed function is running, and when exactly one
\* shutdown function A failed and the others returned nil, the shutdown
\* part of Wait's result is A's error and nothing else.
C9_ShutdownErrorIsolated ==
    /\ (\E i \in 1..Len(shutdownFns) : SdFailedAt(i)) /\ ~Returned /\ sdCtxErr # Nil =>
            timeoutSet /\ sdCtxErr = Err(DeadlineExceeded)
    /\ \A a, b \in 1..Len(shutdownFns) :
          SdFailedAt(a) /\ sdState[b] = "running" => ~Returned
    /\ \A a \in 1..Len(shutdownFns) :
          /\ Returned
          /\ SdFailedAt(a)
          /\ \A b \in 1..Len(shutdownFns) : b # a => sdRet[b] = Nil
          => result = Join(sdRet[a], runErr)

\* Wait has returned A's error alone: A failed, its sibling B returned nil
\* and the shutdown context was not done while they ran (a positive
\* timeout that did not elapse)
C9_Witness ==
    /\ Returned
    /\ timeoutSet
    /\ sdCtxErr = Err(Canceled)
    /\ runErr = Nil
    /\ \E a, b \in 1..Len(shutdownFns) :
          /\ a # b
          /\ sdRet[a] = Err(ShutdownErr(shutdownFns[a]))
          /\ sdState[b] = "finished"
          /\ sdRet[b] = Nil
          /\ result = sdRet[a]

C11_ShutdownFailureMakesResultNonNil ==
    Returned /\ (\E i \in 1..Len(shutdownFns) : SdFailedAt(i)) =>
        /\ result # Nil
        /\ \E j \in 1..Len(shutdownFns) : SdFailedAt(j) /\ Is(result, sdRet[j][1])

\* Wait has returned the error of a shutdown function after a run phase
\* that ended without error, the sibling having returned nil
C11_Witness ==
    /\ Returned
    /\ runErr = Nil
    /\ \E i, j \in 1..Len(shutdownFns) :
          /\ sdRet[i] = Err(ShutdownErr(shutdownFns[i]))
          /\ i # j
          /\ sdRet[j] = Nil
          /\ result = sdRet[i]

\* C12: cfg.ShutdownTimeout bounds the wait for the shutdown functions:
\* once the timeout has elapsed while shutdown() waits, the wait is over,
\* so Wait can return although shutdown functions are still running.
C12_WaitEndsAtShutdownTimeout ==
    pc = "shutdownWait" /\ timeoutSet /\ sdCtxErr = Err(DeadlineExceeded) =>
        ENABLED SdWait

\* C13: while some start function has not returned, none has returned a
\* non-nil error and the context passed to Wait is not done, the shutdown
\* phase has not begun and no shutdown function has been invoked, however
\* many start functions have returned nil.
C13_NilReturnDoesNotEndRunPhase ==
    /\ \E i \in 1..N : startState[i] # "finished"
    /\ ~SomeStartFailed
    /\ parentCause = Nil
    => ~ShutdownPhase /\ \A k \in Callers : sdCalls[k] = 0

\* Wait is blocked in wait(): one start function has returned nil, the
\* other is running, and the caller's context is not done
C13_Witness ==
    /\ pc = "select"
    /\ parentCause = Nil
    /\ gCause = Nil
    /\ \E i, j \in 1..N :
          /\ startState[i] = "finished"
          /\ startRet[i] = Nil
          /\ startState[j] = "running"
    /\ \A k \in Callers : sdCalls[k] = 0

\* C14: once Wait has been called and a start function has returned a
\* non-nil error or the context passed to Wait is done, Wait eventually
\* returns, given that every shutdown function returns and although no
\* start function is assumed to return; start functions still running are
\* left running, Wait does not wait for them.
C14_WaitReturnsWithoutAwaitingStarts ==
    (pc # "idle" /\ (SomeStartFailed \/ parentCause # Nil)) ~> Returned

\* Wait has returned after a start function failed, while another start
\* function is still running although its own shutdown function has
\* been run to the end
C14_Witness ==
    /\ Returned
    /\ \E i, j \in 1..N :
          /\ StartFailedAt(i)
          /\ startState[j] = "running"
          /\ startCalls[startFns[j]] = 1
          /\ sdState[j] = "finished"
          /\ shutdownFns[j] = startFns[j]

\* the errors joined in err are all among the causes of result
CausesIn(err, res) == \A n \in DOMAIN err : Is(res, err[n])

\* C15: when Wait returns, its result is nil exactly when the error of
\* the shutdown phase and the error of the run phase are both nil, both
\* are among the causes of the result, and every shutdown function has
\* been invoked whatever the run-phase error is.
C15_ResultJoinsBothPhases ==
    Returned =>
        /\ result = Nil <=> (sdGErr = Nil /\ runErr = Nil)
        /\ CausesIn(sdGErr, result)
        /\ CausesIn(runErr, result)
        /\ EveryShutdownInvokedOnce

\* Wait has returned a result with both the error of a start function
\* and the error of a shutdown function among its causes
C15_Witness ==
    /\ Returned
    /\ \E i \in 1..N : runErr = Err(StartErr(startFns[i]))
    /\ \E j \in 1..Len(shutdownFns) : sdGErr = Err(ShutdownErr(shutdownFns[j]))
    /\ Len(result) = 2
    /\ CausesIn(runErr, result)
    /\ CausesIn(sdGErr, result)

\* C16: while a shutdown function is running, the context the shutdown
\* functions share is done only when cfg.ShutdownTimeout > 0 and its
\* deadline has passed; the end of the context passed to Wait, the failure
\* of a start function and the failure of a sibling leave it as it is.
C16_ShutdownContextIndependent ==
    (\E i \in 1..Len(shutdownFns) : sdState[i] = "running") =>
        /\ sdCtxErr \in {Nil, Err(DeadlineExceeded)}
        /\ ~timeoutSet => sdCtxErr = Nil

\* a shutdown function is running with a context that is not done, after
\* the caller's context ended, a start function failed and a sibling
\* shutdown function failed, cfg.ShutdownTimeout being positive
C16_Witness ==
    /\ timeoutSet
    /\ sdCtxErr = Nil
    /\ parentCause # Nil
    /\ gCause # Nil
    /\ SomeStartFailed
    /\ \E i, j \in 1..Len(shutdownFns) : SdFailedAt(i) /\ sdState[j] = "running"

\* the run-phase error the claim expects from the cause the caller's
\* context ended with: nil for plain cancellation, else the cause
ExpectedFromParent == IF parentCause = Err(Canceled) THEN Nil ELSE parentCause

\* C17 as stated: when Wait has returned from a run in which a start
\* function failed and the context passed to Wait ended, the run-phase
\* error is that of the event that happened first: the context's cause
\* (nil for plain cancellation) when the context ended before any start
\* function had failed, else the first start error; no other start error
\* is among the causes of the run-phase error.
C17_FirstEventDecidesRunError ==
    Returned /\ parentCause # Nil /\ (\E i \in 1..N : StartFailedAt(i)) =>
        /\ hist.parentFirst => runErr = ExpectedFromParent
        /\ ~hist.parentFirst => runErr = gErr
        /\ \A i \in 1..N : StartFailedAt(i) /\ startRet[i] # gErr =>
                ~Is(runErr, startRet[i][1])

\* C17 amended: the run-phase error is decided by what cancelled the
\* errgroup's derived context first: the start error recorded there first,
\* or the cause of the context passed to Wait when its cancellation
\* reached the derived context first; it is nil when that cause matches
\* context.Canceled.  The error of a start function that is not that cause
\* (a later failure, or a failure after the cancellation reached the
\* group or after the run phase ended) is not part of Wait's result.
C17_FirstCancellationDecidesRunError ==
    Returned =>
        /\ Is(gCause, Canceled) => runErr = Nil
        /\ \A i \in 1..N : StartErrorIsCause(i) => runErr = startRet[i]
        /\ gCause = parentCause /\ ~Is(parentCause, Canceled) => runErr = parentCause
        /\ \A i \in 1..N : StartFailedAt(i) /\ startRet[i] # gCause =>
                ~Is(result, startRet[i][1])

\* Wait has returned the cause of the caller's context, whose cancellation
\* reached the group first, and not the errors of the two start functions
\* that failed afterwards
C17_Witness ==
    /\ Returned
    /\ hist.parentFirst
    /\ parentCause = Err(CustomCause)
    /\ gCause = parentCause
    /\ runErr = parentCause
    /\ N >= 2
    /\ \A i \in 1..N : startRet[i] = Err(StartErr(startFns[i]))
    /\ \A i \in 1..N : ~Is(result, startRet[i][1])

\* the phase of a Wait call: 0 Idle, 1 Running, 2 Terminating, 3 Done
Phase ==
    CASE pc = "idle" -> 0
      [] pc \in {"launch", "select"} -> 1
      [] pc \in {"shutdownLaunch", "shutdownWait"} -> 2
      [] pc = "done" -> 3

StartsLaunched == \A n \in 1..N : startCalls[startFns[n]] = 1

\* C18: in every step the phase of the Wait call stays or advances by
\* one (Idle, Running, Terminating, Done: never back, none skipped, so
\* Wait returns from Terminating only); no start function is launched
\* once the shutdown phase has begun; and whenever a shutdown function has
\* been invoked, every registered start function has been launched, once.
C18_PhasesAdvanceForward ==
    /\ [][/\ Phase' \in {Phase, Phase + 1}
          /\ startCalls' # startCalls => Phase = 1 /\ Phase' = 1]_vars
    /\ []((Phase >= 2 \/ \E k \in Callers : sdCalls[k] > 0) => StartsLaunched)

\* Wait has returned from a run with two entries whose start functions
\* were both launched and whose shutdown functions were both invoked
C18_Witness ==
    /\ Returned
    /\ N >= 2
    /\ StartsLaunched
    /\ EveryShutdownInvokedOnce

\* the callers whose call of Add has returned
AddReturned == {c \in Callers : addPc[c] = "done"}

\* no call of Add is between Lock and Unlock
NoAddInProgress == \A c \in Callers : addPc[c] \in {"ready", "done"}

IsPrefix(s, t) == Len(s) <= Len(t) /\ \A n \in 1..Len(s) : s[n] = t[n]

\* C19: under any interleaving of concurrent Add calls before Wait, the
\* shutdown function at every index of the registry is the one registered
\* by the call that registered the start function at that index; when no
\* Add call is in progress the two lists have equal length and hold exactly
\* one entry for each Add call that has returned; a step never changes or
\* moves an entry that is already in a list; and a step of Add leaves the
\* invocation counts of all start and shutdown functions at zero.
C19_RegistryOneEntryPerAdd ==
    /\ [](/\ \A n \in 1..Len(shutdownFns) :
                n <= Len(startFns) /\ startFns[n] = shutdownFns[n]
          /\ NoAddInProgress =>
                /\ Len(startFns) = Len(shutdownFns)
                /\ Len(startFns) = Cardinality(AddReturned)
                /\ \A c \in AddReturned :
                      Cardinality({n \in 1..Len(startFns) : startFns[n] = c}) = 1
          /\ pc = "idle" => \A k \in Callers : startCalls[k] = 0 /\ sdCalls[k] = 0)
    /\ [][/\ IsPrefix(startFns, startFns')
          /\ IsPrefix(shutdownFns, shutdownFns')
          /\ addPc' # addPc => startCalls' = startCalls /\ sdCalls' = sdCalls]_vars

\* both calls of Add have returned, the second caller having taken the
\* mutex first, and Wait has been called on the registry of two entries
C19_Witness ==
    /\ \A c \in Callers : addPc[c] = "done"
    /\ startFns = <<2, 1>>
    /\ shutdownFns = <<2, 1>>
    /\ pc = "launch"

\* start function i returned an error that matches context.Canceled and
\* that error cancelled the errgroup's derived context
CanceledStartErrorIsCause(i) ==
    /\ StartFailedAt(i)
    /\ gCause = startRet[i]
    /\ Is(startRet[i], Canceled)

\* C20: when a start function returns an error that matches
\* context.Canceled and that error cancels the derived context, Wait
\* eventually returns; it returns with a nil run-phase error after
\* invoking every shutdown function once, and with a nil result if every
\* shutdown function returned nil; and no start error that matches
\* context.Canceled is ever among the causes of Wait's result.
C20_CanceledStartErrorGivesNil ==
    /\ (\E i \in 1..N : CanceledStartErrorIsCause(i)) ~> Returned
    /\ [](Returned =>
            \A i \in 1..N :
                /\ StartFailedAt(i) /\ Is(startRet[i], Canceled) =>
                      ~Is(result, startRet[i][1])
                /\ CanceledStartErrorIsCause(i) =>
                      /\ runErr = Nil
                      /\ EveryShutdownInvokedOnce
                      /\ AllShutdownsReturnedNil => result = Nil)

\* Wait has returned nil although a start function returned an error that
\* wraps context.Canceled, which ended the run phase; every shutdown
\* function was invoked and returned nil
C20_Witness ==
    /\ Returned
    /\ \E i \in 1..N : CanceledStartErrorIsCause(i)
    /\ parentCause = Nil
    /\ EveryShutdownInvokedOnce
    /\ AllShutdownsReturnedNil
    /\ result = Nil

==========================================================================
